---- MODULE Spec2Model ----
(***************************************************************************)
(* Release validation and tag promotion of py_proj_template:               *)
(*   scripts/release_check.py      (checker, optional promotion)           *)
(*   scripts/update_latest_tag.py  (updater of the 'latest' tag)           *)
(*                                                                         *)
(* Text (names, versions, tag names) is a sequence of one-character        *)
(* strings, so that the regular expressions, str.replace, str.lstrip,      *)
(* str.split and int() of the scripts are computed character by character. *)
(* None and the empty string are both the empty sequence: the scripts only *)
(* test them for truthiness.                                               *)
(***************************************************************************)
EXTENDS Integers, Sequences, FiniteSets, TLC

(***************************************************************************)
(* Bounds of the model.                                                    *)
(***************************************************************************)
MaxRemote == 1      \* tags the remote holds
MaxList == 3        \* length of a tag list handed to resolve_highest_tag
MaxNameLen == 3     \* length of the name handed to the demo CLI

(***************************************************************************)
(* Text.                                                                   *)
(***************************************************************************)
None == << >>

Digits == {"0", "1", "2", "3", "4", "5", "6", "7", "8", "9"}

DigitVal(c) ==
    CASE c = "0" -> 0 [] c = "1" -> 1 [] c = "2" -> 2 [] c = "3" -> 3
      [] c = "4" -> 4 [] c = "5" -> 5 [] c = "6" -> 6 [] c = "7" -> 7
      [] c = "8" -> 8 [] c = "9" -> 9

\* Code point of the characters the model's texts use.
Ord(c) ==
    CASE c = "+" -> 43 [] c = "-" -> 45 [] c = "." -> 46
      [] c \in Digits -> 48 + DigitVal(c)
      [] c = "_" -> 95
      [] c = "a" -> 97 [] c = "b" -> 98 [] c = "c" -> 99 [] c = "e" -> 101
      [] c = "j" -> 106 [] c = "l" -> 108 [] c = "m" -> 109 [] c = "o" -> 111
      [] c = "p" -> 112 [] c = "r" -> 114 [] c = "s" -> 115 [] c = "t" -> 116
      [] c = "v" -> 118 [] c = "x" -> 120 [] c = "y" -> 121

IsAlnum(c) == Ord(c) \in (48..57) \cup (97..122)

\* str.replace(old, new) for single characters.
Replace(s, old, new) == [i \in 1..Len(s) |-> IF s[i] = old THEN new ELSE s[i]]

\* str.lstrip(c)
RECURSIVE LStrip(_, _)
LStrip(s, c) == IF s # << >> /\ Head(s) = c THEN LStrip(Tail(s), c) ELSE s

\* str.split(sep): the pieces between the separators, empty pieces included.
RECURSIVE SplitAcc(_, _, _)
SplitAcc(s, sep, cur) ==
    IF s = << >> THEN <<cur>>
    ELSE IF Head(s) = sep THEN <<cur>> \o SplitAcc(Tail(s), sep, << >>)
    ELSE SplitAcc(Tail(s), sep, Append(cur, Head(s)))

Split(s, sep) == SplitAcc(s, sep, << >>)

RECURSIVE DigitsValue(_, _)
DigitsValue(s, acc) ==
    IF s = << >> THEN acc ELSE DigitsValue(Tail(s), 10 * acc + DigitVal(Head(s)))

AllDigits(s) == s # << >> /\ \A i \in 1..Len(s) : s[i] \in Digits

\* int(part): decimal digits with an optional sign; anything else is a ValueError.
IntOk(part) ==
    \/ AllDigits(part)
    \/ part # << >> /\ Head(part) \in {"+", "-"} /\ AllDigits(Tail(part))

IntOf(part) ==
    IF AllDigits(part) THEN DigitsValue(part, 0)
    ELSE IF Head(part) = "-" THEN 0 - DigitsValue(Tail(part), 0)
    ELSE DigitsValue(Tail(part), 0)

\* Byte-wise order of two texts (default refname order of `git tag --list`).
RECURSIVE TextLess(_, _)
TextLess(a, b) ==
    IF b = << >> THEN FALSE
    ELSE IF a = << >> THEN TRUE
    ELSE IF Head(a) # Head(b) THEN Ord(Head(a)) < Ord(Head(b))
    ELSE TextLess(Tail(a), Tail(b))

\* Python's order of two tuples of ints.
RECURSIVE TupleLess(_, _)
TupleLess(x, y) ==
    IF y = << >> THEN FALSE
    ELSE IF x = << >> THEN TRUE
    ELSE IF Head(x) # Head(y) THEN Head(x) < Head(y)
    ELSE TupleLess(Tail(x), Tail(y))

(***************************************************************************)
(* The texts of the model.                                                 *)
(***************************************************************************)
V_1_2_0 == <<"1", ".", "2", ".", "0">>
V_1_10_0 == <<"1", ".", "1", "0", ".", "0">>
V_1_10_0_rc1 == <<"1", ".", "1", "0", ".", "0", "-", "r", "c", "1">>
V_1_0_0 == <<"1", ".", "0", ".", "0">>
V_1_2 == <<"1", ".", "2">>
V_1_02_0 == <<"1", ".", "0", "2", ".", "0">>

VTag(v) == <<"v">> \o v

LATEST == <<"l", "a", "t", "e", "s", "t">>

TEMPLATE_REPO_NAME ==
    <<"p", "y", "-", "p", "r", "o", "j", "-", "t", "e", "m", "p", "l", "a", "t", "e">>

ACME_NAME == <<"a", "-", "b">>

(***************************************************************************)
(* Pure helpers of the two scripts.                                        *)
(***************************************************************************)
\* release_check.PEP440_TAG : ^v([0-9][0-9A-Za-z_.+-]*)$
PEP440_TAG(tag) ==
    /\ Len(tag) >= 2
    /\ tag[1] = "v"
    /\ tag[2] \in Digits
    /\ \A i \in 3..Len(tag) : IsAlnum(tag[i]) \/ tag[i] \in {"_", ".", "+", "-"}

\* release_check.normalized_pkg_dir : the directory name under src/
normalized_pkg_dir_raw(name) == name

normalized_pkg_dir(name) == Replace(name, "-", "_")

StartsWithV(tag) == tag # << >> /\ Head(tag) = "v"

\* Length of the run of digits that starts the text.
RECURSIVE DigitRunLen(_)
DigitRunLen(s) ==
    IF s # << >> /\ Head(s) \in Digits THEN 1 + DigitRunLen(Tail(s)) ELSE 0

\* Order used by `git tag --sort=v:refname`: runs of digits compare as numbers
\* (of two equal numbers the one with more leading zeros is smaller), other
\* characters by code point, and a proper prefix is smaller.
RECURSIVE VersionLess(_, _)
VersionLess(a, b) ==
    IF b = << >> THEN FALSE
    ELSE IF a = << >> THEN TRUE
    ELSE IF Head(a) \in Digits /\ Head(b) \in Digits
    THEN LET la == DigitRunLen(a)
             lb == DigitRunLen(b)
             va == DigitsValue(SubSeq(a, 1, la), 0)
             vb == DigitsValue(SubSeq(b, 1, lb), 0)
         IN  IF va # vb THEN va < vb
             ELSE IF la # lb THEN la > lb
             ELSE VersionLess(SubSeq(a, la + 1, Len(a)), SubSeq(b, lb + 1, Len(b)))
    ELSE IF Head(a) # Head(b) THEN Ord(Head(a)) < Ord(Head(b))
    ELSE VersionLess(Tail(a), Tail(b))

\* release_check.highest_tag : first line of `git tag --sort=-v:refname v*`,
\* None when there is no v* tag.  names is the set of tag names.
highest_tag_bytes(names) ==
    LET vs == {t \in names : StartsWithV(t)}
    IN  IF vs = {} THEN None
        ELSE CHOOSE t \in vs : \A u \in vs : ~TextLess(t, u)

highest_tag(names) ==
    LET vs == {t \in names : StartsWithV(t)}
    IN  IF vs = {} THEN None
        ELSE CHOOSE t \in vs : \A u \in vs : ~VersionLess(t, u)

\* update_latest_tag.parse_semver : the tuple of ints, when every part is one
parse_ok(tag) ==
    LET parts == Split(LStrip(tag, "v"), ".")
    IN  \A i \in 1..Len(parts) : IntOk(parts[i])

parse_semver_text(tag) == [i \in 1..Len(tag) |-> Ord(tag[i])]

parse_semver(tag) ==
    LET parts == Split(LStrip(tag, "v"), ".")
    IN  [i \in 1..Len(parts) |-> IntOf(parts[i])]

\* max(version_tags, key=parse_semver): the first element whose key is greatest
RECURSIVE MaxByKey(_, _)
MaxByKey(rest, best) ==
    IF rest = << >> THEN best
    ELSE MaxByKey(Tail(rest),
                  IF TupleLess(parse_semver(best), parse_semver(Head(rest)))
                  THEN Head(rest) ELSE best)

\* update_latest_tag.resolve_highest_tag : the tag, or the SystemExit raised
resolve_highest_tag_lenient(list) ==
    LET version_tags == SelectSeq(list, LAMBDA t : StartsWithV(t) /\ parse_ok(t))
    IN  IF version_tags = << >>
        THEN [status |-> "no_version_tags", tag |-> None]
        ELSE [status |-> "ok", tag |-> MaxByKey(Tail(version_tags), Head(version_tags))]

resolve_highest_tag(list) ==
    LET version_tags == SelectSeq(list, StartsWithV)
    IN  IF version_tags = << >>
        THEN [status |-> "no_version_tags", tag |-> None]
        ELSE IF \E i \in 1..Len(version_tags) : ~parse_ok(version_tags[i])
        THEN [status |-> "unsupported_tag", tag |-> None]
        ELSE [status |-> "ok", tag |-> MaxByKey(Tail(version_tags), Head(version_tags))]

\* The lines of `git tag --list v*` : the v* names in refname (byte) order
RECURSIVE SortedNames(_)
SortedNames(names) ==
    IF names = {} THEN << >>
    ELSE LET m == CHOOSE t \in names : \A u \in names : ~TextLess(u, t)
         IN  <<m>> \o SortedNames(names \ {m})

git_tag_list_v(names) == SortedNames({t \in names : StartsWithV(t)})

\* `git fetch --tags` that reaches the remote: every tag of the remote that the
\* local repository lacks is created; an existing local tag is not replaced.
Fetched(local, rem) ==
    [n \in DOMAIN local \cup DOMAIN rem |->
        IF n \in DOMAIN local THEN local[n] ELSE rem[n]]

\* `git tag -f latest <tag>` : latest refers to the object the tag refers to
ForceLatest_Head(local, tag) ==
    [n \in DOMAIN local \cup {LATEST} |-> IF n = LATEST THEN 9 ELSE local[n]]

ForceLatest(local, tag) ==
    [n \in DOMAIN local \cup {LATEST} |-> IF n = LATEST THEN local[tag] ELSE local[n]]

\* `git rev-parse <name>` through run_optional: 0 stands for None
resolve_tag_sha(local, name) == IF name \in DOMAIN local THEN local[name] ELSE 0

(***************************************************************************)
(* State.                                                                  *)
(***************************************************************************)
VARIABLES
    dirty,      \* `git status --porcelain` prints something
    pyproject,  \* pyproject.toml: [exists, name, version]
    initPy,     \* the package under src/: [dir, version] of its __init__.py
    changelog,  \* CHANGELOG.md: [exists, entries], entries = versions with a '## [v]' header
    settings,   \* config/settings.toml: [exists, version]
    tags,       \* local tag refs: tag name -> object id
    remote,     \* tag refs of the remote: tag name -> object id
    tool,       \* the script that runs: "none", "release_check", "update_latest_tag"
    args,       \* parsed command line of the run
    pc,         \* position of the run in main()
    loc,        \* local variables of main()
    exitCode,   \* exit status of the finished run (-1 while running)
    diag,       \* diagnostic of the finished run
    trace,      \* what the run has done so far, in order
    tags0,      \* tag refs when the run started
    prevUpdOk,  \* the run before this one was update_latest_tag without --dry-run, exit 0
    tagList,    \* argument of resolve_highest_tag (pure-function specification)
    resolved,   \* its result
    argv,       \* command line of the demo CLI (proj_name.cli.main)
    stdout,     \* the lines the demo CLI has printed
    tree        \* what else repo_init.py touches: text files holding the identifier,
                \* TODO.md, git remotes and branches, .venv, the pre-push hook

files == <<dirty, pyproject, initPy, changelog, settings>>
pure == <<tagList, resolved, argv, stdout, tree>>
vars == <<dirty, pyproject, initPy, changelog, settings, tags, remote, tool, args,
          pc, loc, exitCode, diag, trace, tags0, prevUpdOk, tagList, resolved,
          argv, stdout, tree>>

FileVersions == {V_1_2_0, V_1_10_0}

TagNames == {VTag(V_1_2_0), VTag(V_1_10_0)}

RemoteNames == {VTag(V_1_10_0), VTag(V_1_10_0_rc1), LATEST}

TagInputs == {VTag(V_1_2_0), VTag(V_1_10_0), V_1_2_0}

ShaOf(name) ==
    CASE name = VTag(V_1_2_0) -> 1
      [] name = VTag(V_1_10_0) -> 2
      [] name = VTag(V_1_10_0_rc1) -> 3
      [] name = LATEST -> 2

PyprojectStates ==
    {[exists |-> FALSE, name |-> None, version |-> None],
     [exists |-> TRUE, name |-> None, version |-> V_1_2_0],
     [exists |-> TRUE, name |-> ACME_NAME, version |-> None],
     [exists |-> TRUE, name |-> TEMPLATE_REPO_NAME, version |-> V_1_2_0]}
    \cup {[exists |-> TRUE, name |-> ACME_NAME, version |-> v] : v \in FileVersions}

InitPyStates ==
    {[dir |-> <<"p", "y", "_", "p", "r", "o", "j", "_", "t", "e", "m", "p", "l", "a", "t", "e">>,
      version |-> V_1_2_0]}
    \cup {[dir |-> <<"a", "_", "b">>, version |-> v] : v \in {None} \cup FileVersions}

ChangelogStates ==
    {[exists |-> FALSE, entries |-> {}]}
    \cup {[exists |-> TRUE, entries |-> e] : e \in {{V_1_2_0}, {V_1_2_0, V_1_10_0}}}

SettingsStates ==
    {[exists |-> FALSE, version |-> None], [exists |-> TRUE, version |-> None]}
    \cup {[exists |-> TRUE, version |-> v] : v \in FileVersions}

LocalTagStates ==
    {[n \in S |-> ShaOf(n)] : S \in SUBSET TagNames}
    \cup {[n \in S \cup {LATEST} |-> IF n = LATEST THEN l ELSE ShaOf(n)] :
            S \in SUBSET TagNames, l \in {1, 2}}

RemoteStates ==
    {[n \in S |-> ShaOf(n)] : S \in {X \in SUBSET RemoteNames : Cardinality(X) <= MaxRemote}}

NoArgs == [tag |-> None, require_highest |-> FALSE, update_latest |-> FALSE, dry_run |-> FALSE]

\* fetch_rc is the exit status of `git fetch --tags` (-1: not run), which main()
\* discards; seen is the tag refs the run finds after it
NoLoc == [name |-> None, version |-> None, init_version |-> None,
          highest |-> None, target_sha |-> 0, latest_sha |-> 0,
          fetch_rc |-> -1, seen |-> << >>]

Idle ==
    /\ tool = "none" /\ args = NoArgs /\ pc = "idle" /\ loc = NoLoc
    /\ exitCode = -1 /\ diag = "none" /\ trace = << >> /\ prevUpdOk = FALSE

NoTree == [idents |-> {}, todo |-> "absent", remotes |-> {}, branches |-> {},
           template_from |-> "none", head |-> "main", uv |-> FALSE, venv |-> FALSE,
           hook_src |-> FALSE, hook |-> FALSE]

\* the variables of the other specifications, at rest
NoDemo == argv = << >> /\ stdout = << >>

Init ==
    /\ NoDemo /\ tree = NoTree
    /\ dirty \in BOOLEAN
    /\ pyproject \in PyprojectStates
    /\ initPy \in InitPyStates
    /\ changelog \in ChangelogStates
    /\ settings \in SettingsStates
    /\ tags \in LocalTagStates
    /\ remote \in RemoteStates
    /\ tags0 = tags
    /\ Idle
    /\ tagList = << >> /\ resolved = [status |-> "none", tag |-> None]

(***************************************************************************)
(* Steps shared by the actions.                                            *)
(***************************************************************************)
Did(step) == trace' = Append(trace, step)

Goto(label) == pc' = label /\ exitCode' = exitCode /\ diag' = diag

\* return <code> from main(), or raise SystemExit(message): the run is over
Exit(code, d) == pc' = "done" /\ exitCode' = code /\ diag' = d

StartRun(t, a, first) ==
    /\ pc \in {"idle", "done"}
    /\ prevUpdOk' = (tool = "update_latest_tag" /\ ~args.dry_run /\ exitCode = 0)
    /\ tool' = t /\ args' = a /\ pc' = first /\ loc' = NoLoc
    /\ exitCode' = -1 /\ diag' = "none" /\ trace' = << >> /\ tags0' = tags
    /\ UNCHANGED <<files, tags, remote, pure>>

(***************************************************************************)
(* release_check.py                                                        *)
(***************************************************************************)
\* release_check.clean_tree
clean_tree_skipped == TRUE

clean_tree == ~dirty

\* release_check.read_pyproject
read_pyproject ==
    IF ~pyproject.exists THEN [name |-> None, version |-> None]
    ELSE [name |-> pyproject.name, version |-> pyproject.version]

\* release_check.read_init_version
read_init_version(pkg_dir) == IF initPy.dir = pkg_dir THEN initPy.version ELSE None

\* release_check.changelog_has
changelog_has_any(version) == changelog.exists

changelog_has(version) == changelog.exists /\ version \in changelog.entries

\* release_check.read_settings_version
read_settings_version == IF settings.exists THEN settings.version ELSE None

\* release_check.tag_exists
tag_exists_skipped(tag) == TRUE

tag_exists(tag) == tag \in DOMAIN tags

\* main, lines 117-124: parse the command line; --update-latest implies --require-highest
RC_Start(tag, rh, ul) ==
    StartRun("release_check",
             [tag |-> tag, require_highest |-> (rh \/ ul), update_latest |-> ul,
              dry_run |-> FALSE],
             "rc_clean_tree")

\* main, lines 126-128
RC_CleanTree ==
    /\ pc = "rc_clean_tree"
    /\ Did("git_status")
    /\ IF clean_tree THEN Goto("rc_parse_tag") ELSE Exit(1, "not_clean")
    /\ UNCHANGED <<files, tags, remote, pure, tool, args, loc, tags0, prevUpdOk>>

\* main, lines 130-134
RC_ParseTag ==
    /\ pc = "rc_parse_tag"
    /\ Did("parse_tag")
    /\ IF PEP440_TAG(args.tag) THEN Goto("rc_read_pyproject") ELSE Exit(1, "invalid_tag")
    /\ UNCHANGED <<files, tags, remote, pure, tool, args, loc, tags0, prevUpdOk>>

\* main, lines 136-142
RC_ReadPyproject ==
    /\ pc = "rc_read_pyproject"
    /\ Did("read_pyproject")
    /\ loc' = [loc EXCEPT !.name = read_pyproject.name, !.version = read_pyproject.version]
    /\ IF read_pyproject.name = None \/ read_pyproject.version = None
       THEN Exit(1, "manifest_fields")
       ELSE Goto("rc_tag_match")
    /\ UNCHANGED <<files, tags, remote, pure, tool, args, tags0, prevUpdOk>>

\* main, lines 144-149
RC_TagMatch_NoCheck ==
    /\ pc = "rc_tag_match"
    /\ Did("rule_tag_version")
    /\ Goto("rc_init_version")
    /\ UNCHANGED <<files, tags, remote, pure, tool, args, loc, tags0, prevUpdOk>>

RC_TagMatch ==
    /\ pc = "rc_tag_match"
    /\ Did("rule_tag_version")
    /\ IF VTag(loc.version) # args.tag THEN Exit(1, "tag_mismatch") ELSE Goto("rc_init_version")
    /\ UNCHANGED <<files, tags, remote, pure, tool, args, loc, tags0, prevUpdOk>>

\* main, lines 151-159
RC_InitVersion_NoCompare ==
    /\ pc = "rc_init_version"
    /\ Did("read_init")
    /\ LET init_version == read_init_version(normalized_pkg_dir(loc.name))
       IN  /\ loc' = [loc EXCEPT !.init_version = init_version]
           /\ IF init_version = None THEN Exit(1, "init_mismatch") ELSE Goto("rc_changelog")
    /\ UNCHANGED <<files, tags, remote, pure, tool, args, tags0, prevUpdOk>>

RC_InitVersion ==
    /\ pc = "rc_init_version"
    /\ Did("read_init")
    /\ LET init_version == read_init_version(normalized_pkg_dir(loc.name))
       IN  /\ loc' = [loc EXCEPT !.init_version = init_version]
           /\ IF init_version = None \/ init_version # loc.version
              THEN Exit(1, "init_mismatch")
              ELSE Goto("rc_changelog")
    /\ UNCHANGED <<files, tags, remote, pure, tool, args, tags0, prevUpdOk>>

\* main, lines 161-165 and 174: the changelog rule, then where main() goes next
RC_Changelog_AlwaysSettings ==
    /\ pc = "rc_changelog"
    /\ Did("read_changelog")
    /\ IF ~changelog_has(loc.version) THEN Exit(1, "changelog_missing")
       ELSE Goto("rc_settings")
    /\ UNCHANGED <<files, tags, remote, pure, tool, args, loc, tags0, prevUpdOk>>

RC_Changelog ==
    /\ pc = "rc_changelog"
    /\ Did("read_changelog")
    /\ IF ~changelog_has(loc.version) THEN Exit(1, "changelog_missing")
       ELSE IF loc.name = TEMPLATE_REPO_NAME THEN Goto("rc_settings")
       ELSE IF args.require_highest THEN Goto("rc_fetch")
       ELSE Goto("rc_ok")
    /\ UNCHANGED <<files, tags, remote, pure, tool, args, loc, tags0, prevUpdOk>>

\* main, lines 165-174
RC_Settings_Lenient ==
    /\ pc = "rc_settings"
    /\ Did("read_settings")
    /\ IF read_settings_version = None THEN Exit(1, "settings_missing")
       ELSE IF args.require_highest THEN Goto("rc_fetch")
       ELSE Goto("rc_ok")
    /\ UNCHANGED <<files, tags, remote, pure, tool, args, loc, tags0, prevUpdOk>>

RC_Settings ==
    /\ pc = "rc_settings"
    /\ Did("read_settings")
    /\ IF read_settings_version = None THEN Exit(1, "settings_missing")
       ELSE IF read_settings_version # loc.version THEN Exit(1, "settings_mismatch")
       ELSE IF args.require_highest THEN Goto("rc_fetch")
       ELSE Goto("rc_ok")
    /\ UNCHANGED <<files, tags, remote, pure, tool, args, loc, tags0, prevUpdOk>>

\* main, line 175: sh(["git", "fetch", "--tags"], check=False); ok = the remote was reached
RC_Fetch_Checked(ok) ==
    /\ pc = "rc_fetch"
    /\ Did("git_fetch")
    /\ tags' = IF ok THEN Fetched(tags, remote) ELSE tags
    /\ loc' = [loc EXCEPT !.fetch_rc = IF ok THEN 0 ELSE 1, !.seen = tags']
    /\ IF ok THEN Goto("rc_tag_exists") ELSE Exit(1, "unexpected_error")
    /\ UNCHANGED <<files, remote, pure, tool, args, tags0, prevUpdOk>>

RC_Fetch(ok) ==
    /\ pc = "rc_fetch"
    /\ Did("git_fetch")
    /\ tags' = IF ok THEN Fetched(tags, remote) ELSE tags
    /\ loc' = [loc EXCEPT !.fetch_rc = IF ok THEN 0 ELSE 1, !.seen = tags']
    /\ Goto("rc_tag_exists")
    /\ UNCHANGED <<files, remote, pure, tool, args, tags0, prevUpdOk>>

\* main, lines 176-178
RC_TagExists ==
    /\ pc = "rc_tag_exists"
    /\ Did("git_tag_list")
    /\ IF ~tag_exists(args.tag) THEN Exit(1, "tag_not_found") ELSE Goto("rc_highest")
    /\ UNCHANGED <<files, tags, remote, pure, tool, args, loc, tags0, prevUpdOk>>

\* main, lines 179-182
RC_Highest ==
    /\ pc = "rc_highest"
    /\ Did("git_tag_sort")
    /\ loc' = [loc EXCEPT !.highest = highest_tag(DOMAIN tags)]
    /\ IF highest_tag(DOMAIN tags) # args.tag THEN Exit(1, "not_highest") ELSE Goto("rc_ok")
    /\ UNCHANGED <<files, tags, remote, pure, tool, args, tags0, prevUpdOk>>

\* main, lines 184-187, with move_latest (lines 103-105)
RC_Ok ==
    /\ pc = "rc_ok"
    /\ IF ~args.update_latest
       THEN tags' = tags /\ Did("print_ok") /\ Exit(0, "ok")
       ELSE IF args.tag \in DOMAIN tags
       THEN /\ tags' = ForceLatest(tags, args.tag)
            /\ trace' = trace \o <<"print_ok", "git_tag_force">>
            /\ Exit(0, "ok")
       ELSE \* git fails, sh() raises, the __main__ guard reports it (lines 190-197)
            /\ tags' = tags
            /\ trace' = trace \o <<"print_ok", "git_tag_force_failed">>
            /\ Exit(1, "unexpected_error")
    /\ UNCHANGED <<files, remote, pure, tool, args, loc, tags0, prevUpdOk>>

ReleaseCheck ==
    \/ \E tag \in TagInputs, rh \in BOOLEAN, ul \in BOOLEAN : RC_Start(tag, rh, ul)
    \/ RC_CleanTree
    \/ RC_ParseTag
    \/ RC_ReadPyproject
    \/ RC_TagMatch
    \/ RC_InitVersion
    \/ RC_Changelog
    \/ RC_Settings
    \/ \E ok \in BOOLEAN : RC_Fetch(ok)
    \/ RC_TagExists
    \/ RC_Highest
    \/ RC_Ok

(***************************************************************************)
(* update_latest_tag.py                                                    *)
(***************************************************************************)
\* update_latest_tag.read_template_version
read_template_version == IF settings.exists THEN settings.version ELSE None

\* update_latest_tag.changelog_has_entry (the file exists)
changelog_has_entry_any(version) == TRUE

changelog_has_entry(version) == version \in changelog.entries

\* main, lines 149-155
U_Start(dry) ==
    StartRun("update_latest_tag",
             [tag |-> None, require_highest |-> FALSE, update_latest |-> FALSE,
              dry_run |-> dry],
             "u_clean")

\* main, line 157: ensure_clean_workspace (lines 58-65)
U_Clean ==
    /\ pc = "u_clean"
    /\ Did("git_status")
    /\ IF dirty THEN Exit(1, "not_clean") ELSE Goto("u_read_pyproject")
    /\ UNCHANGED <<files, tags, remote, pure, tool, args, loc, tags0, prevUpdOk>>

\* main, line 159: read_pyproject_fields (lines 68-76); a missing file raises
\* FileNotFoundError, which nothing catches: traceback, exit status 1
U_ReadPyproject ==
    /\ pc = "u_read_pyproject"
    /\ Did("read_pyproject")
    /\ IF ~pyproject.exists THEN loc' = loc /\ Exit(1, "traceback")
       ELSE IF pyproject.name = None \/ pyproject.version = None
       THEN loc' = loc /\ Exit(1, "pyproject_fields")
       ELSE /\ loc' = [loc EXCEPT !.name = pyproject.name, !.version = pyproject.version]
            /\ Goto("u_template")
    /\ UNCHANGED <<files, tags, remote, pure, tool, args, tags0, prevUpdOk>>

\* main, lines 161-178
U_Template ==
    /\ pc = "u_template"
    /\ Did("read_settings")
    /\ IF loc.name = TEMPLATE_REPO_NAME /\ read_template_version = None
       THEN Exit(1, "settings_missing")
       ELSE IF loc.name = TEMPLATE_REPO_NAME /\ loc.version # read_template_version
       THEN Exit(1, "settings_mismatch")
       ELSE Goto("u_changelog")
    /\ UNCHANGED <<files, tags, remote, pure, tool, args, loc, tags0, prevUpdOk>>

\* main, lines 180-184: changelog_has_entry (lines 92-97); a missing file raises
U_Changelog ==
    /\ pc = "u_changelog"
    /\ Did("read_changelog")
    /\ IF ~changelog.exists THEN Exit(1, "traceback")
       ELSE IF ~changelog_has_entry(loc.version) THEN Exit(1, "changelog_missing")
       ELSE Goto("u_fetch")
    /\ UNCHANGED <<files, tags, remote, pure, tool, args, loc, tags0, prevUpdOk>>

\* main, line 186: run_optional(["git", "fetch", "--tags"]); ok = the remote was reached in time
U_Fetch(ok) ==
    /\ pc = "u_fetch"
    /\ Did("git_fetch")
    /\ tags' = IF ok THEN Fetched(tags, remote) ELSE tags
    /\ loc' = [loc EXCEPT !.fetch_rc = IF ok THEN 0 ELSE 1, !.seen = tags']
    /\ Goto("u_tag_exists")
    /\ UNCHANGED <<files, remote, pure, tool, args, tags0, prevUpdOk>>

\* main, line 187: ensure_release_tag_exists (lines 120-126)
U_TagExists ==
    /\ pc = "u_tag_exists"
    /\ Did("git_tag_list")
    /\ IF VTag(loc.version) \notin DOMAIN tags THEN Exit(1, "tag_not_found")
       ELSE Goto("u_highest")
    /\ UNCHANGED <<files, tags, remote, pure, tool, args, loc, tags0, prevUpdOk>>

\* main, lines 189-196
U_Highest ==
    /\ pc = "u_highest"
    /\ Did("git_tag_list_v")
    /\ LET r == resolve_highest_tag(git_tag_list_v(DOMAIN tags))
       IN  IF r.status # "ok" THEN loc' = loc /\ Exit(1, r.status)
           ELSE /\ loc' = [loc EXCEPT !.highest = r.tag]
                /\ IF r.tag # VTag(loc.version) THEN Exit(1, "not_highest")
                   ELSE Goto("u_resolve")
    /\ UNCHANGED <<files, tags, remote, pure, tool, args, tags0, prevUpdOk>>

\* main, lines 198-205
U_Resolve_NoCompare ==
    /\ pc = "u_resolve"
    /\ trace' = trace \o <<"git_rev_parse", "git_rev_parse">>
    /\ loc' = [loc EXCEPT !.target_sha = resolve_tag_sha(tags, loc.highest),
                          !.latest_sha = resolve_tag_sha(tags, LATEST)]
    /\ Goto("u_move")
    /\ UNCHANGED <<files, tags, remote, pure, tool, args, tags0, prevUpdOk>>

U_Resolve ==
    /\ pc = "u_resolve"
    /\ LET target_sha == resolve_tag_sha(tags, loc.highest)
           latest_sha == resolve_tag_sha(tags, LATEST)
       IN  IF target_sha = 0
           THEN Did("git_rev_parse") /\ loc' = loc /\ Exit(1, "unresolvable")
           ELSE /\ trace' = trace \o <<"git_rev_parse", "git_rev_parse">>
                /\ loc' = [loc EXCEPT !.target_sha = target_sha, !.latest_sha = latest_sha]
                /\ IF latest_sha = target_sha THEN Exit(0, "noop") ELSE Goto("u_move")
    /\ UNCHANGED <<files, tags, remote, pure, tool, args, tags0, prevUpdOk>>

\* main, lines 207-209: move_latest (lines 138-145)
U_Move_IgnoresDryRun ==
    /\ pc = "u_move"
    /\ tags' = ForceLatest(tags, loc.highest) /\ Did("git_tag_force") /\ Exit(0, "moved")
    /\ UNCHANGED <<files, remote, pure, tool, args, loc, tags0, prevUpdOk>>

U_Move ==
    /\ pc = "u_move"
    /\ IF args.dry_run
       THEN tags' = tags /\ Did("print_dry_run") /\ Exit(0, "dry_run")
       ELSE tags' = ForceLatest(tags, loc.highest) /\ Did("git_tag_force") /\ Exit(0, "moved")
    /\ UNCHANGED <<files, remote, pure, tool, args, loc, tags0, prevUpdOk>>

UpdateLatestTag ==
    \/ \E dry \in BOOLEAN : U_Start(dry)
    \/ U_Clean
    \/ U_ReadPyproject
    \/ U_Template
    \/ U_Changelog
    \/ \E ok \in BOOLEAN : U_Fetch(ok)
    \/ U_TagExists
    \/ U_Highest
    \/ U_Resolve
    \/ U_Move

Next == ReleaseCheck \/ UpdateLatestTag

Spec == Init /\ [][Next]_vars

(***************************************************************************)
(* resolve_highest_tag as a function of its argument.                      *)
(***************************************************************************)
ListNames ==
    {VTag(V_1_0_0), VTag(V_1_2_0), VTag(V_1_10_0), VTag(V_1_2), VTag(V_1_02_0),
     VTag(V_1_10_0_rc1), LATEST}

RECURSIVE ListsOf(_, _)
ListsOf(names, n) ==
    IF n = 0 THEN {<< >>}
    ELSE LET shorter == ListsOf(names, n - 1)
         IN  shorter \cup {Append(l, t) : l \in {x \in shorter : Len(x) = n - 1}, t \in names}

NoDup(l) == \A i, j \in 1..Len(l) : i # j => l[i] # l[j]

InitTags ==
    /\ dirty = FALSE
    /\ pyproject = [exists |-> FALSE, name |-> None, version |-> None]
    /\ initPy = [dir |-> <<"a", "_", "b">>, version |-> None]
    /\ changelog = [exists |-> FALSE, entries |-> {}]
    /\ settings = [exists |-> FALSE, version |-> None]
    /\ tags = << >> /\ remote = << >> /\ tags0 = << >>
    /\ Idle
    /\ NoDemo /\ tree = NoTree
    /\ tagList \in {l \in ListsOf(ListNames, MaxList) : NoDup(l)}
    /\ resolved = [status |-> "none", tag |-> None]

\* main, line 190: highest_tag = resolve_highest_tag(tag_list)
ResolveHighest ==
    /\ resolved.status = "none"
    /\ resolved' = resolve_highest_tag(tagList)
    /\ UNCHANGED <<files, tags, remote, tool, args, pc, loc, exitCode, diag, trace,
                   tags0, prevUpdOk, tagList, argv, stdout, tree>>

NextTags == ResolveHighest

SpecTags == InitTags /\ [][NextTags]_vars

(***************************************************************************)
(* The demo CLI: proj_name.cli.main, with the greeting it builds through   *)
(* the core, api and application layers.                                   *)
(***************************************************************************)
NameOption == <<"-", "-", "n", "a", "m", "e">>

World == <<"w", "o", "r", "l", "d">>

NameChars == {"a", "-", " "}

\* the command lines: no option, or `--name N`
CommandLines == {<< >>} \cup {<<NameOption, n>> : n \in ListsOf(NameChars, MaxNameLen)}

\* argparse takes a token for an option, not for the value of --name, when it
\* starts with '-', is longer than that one character, is not a negative
\* number and holds no space
looks_like_option(token) ==
    /\ token # << >> /\ Head(token) = "-" /\ Len(token) > 1
    /\ ~AllDigits(Tail(token))
    /\ \A i \in 1..Len(token) : token[i] # " "

\* parser.parse_args (build_parser: --name, default "world"); a usage error exits 2
parse_args(line) ==
    IF line = << >> THEN [ok |-> TRUE, name |-> World]
    ELSE IF looks_like_option(line[2]) THEN [ok |-> FALSE, name |-> None]
    ELSE [ok |-> TRUE, name |-> line[2]]

\* proj_name.core.lib_example.build_greeting : f"Hello, {name}!"
build_greeting(name) == <<"H", "e", "l", "l", "o", ",", " ">> \o name \o <<"!">>

\* proj_name.api.get_greeting : f"[api] {build_greeting(name)}"
get_greeting_unwrapped(name) == build_greeting(name)

get_greeting(name) == <<"[", "a", "p", "i", "]", " ">> \o build_greeting(name)

demoFrame == <<files, tags, remote, tool, loc, diag, trace, tags0, prevUpdOk,
               tagList, resolved, argv, tree>>

\* main, lines 30-31
CLI_ParseArgs ==
    /\ pc = "idle"
    /\ IF parse_args(argv).ok
       THEN args' = [name |-> parse_args(argv).name] /\ pc' = "cli_core" /\ exitCode' = exitCode
       ELSE args' = args /\ pc' = "done" /\ exitCode' = 2
    /\ UNCHANGED <<demoFrame, stdout>>

\* main, line 33
CLI_PrintCore ==
    /\ pc = "cli_core"
    /\ stdout' = Append(stdout, <<"[", "c", "o", "r", "e", "]", " ">> \o build_greeting(args.name))
    /\ pc' = "cli_demo"
    /\ UNCHANGED <<demoFrame, args, exitCode>>

\* main, line 34: run_demo (application/ap_example/demo.py, lines 8-12)
CLI_RunDemo ==
    /\ pc = "cli_demo"
    /\ stdout' = Append(stdout,
                        <<"[", "a", "p", "p", "l", "i", "c", "a", "t", "i", "o", "n", "]", " ">>
                        \o get_greeting(args.name))
    /\ pc' = "cli_return"
    /\ UNCHANGED <<demoFrame, args, exitCode>>

\* main, line 35
CLI_Return ==
    /\ pc = "cli_return"
    /\ pc' = "done" /\ exitCode' = 0
    /\ UNCHANGED <<demoFrame, args, stdout>>

InitCli ==
    /\ dirty = FALSE
    /\ pyproject = [exists |-> FALSE, name |-> None, version |-> None]
    /\ initPy = [dir |-> <<"a", "_", "b">>, version |-> None]
    /\ changelog = [exists |-> FALSE, entries |-> {}]
    /\ settings = [exists |-> FALSE, version |-> None]
    /\ tags = << >> /\ remote = << >> /\ tags0 = << >>
    /\ Idle
    /\ tagList = << >> /\ resolved = [status |-> "none", tag |-> None]
    /\ tree = NoTree
    /\ argv \in CommandLines /\ stdout = << >>

NextCli == CLI_ParseArgs \/ CLI_PrintCore \/ CLI_RunDemo \/ CLI_Return

SpecCli == InitCli /\ [][NextCli]_vars

(***************************************************************************)
(* scripts/repo_init.py.  The package under src/ is initPy; the manifest   *)
(* name of the template, 'py-proj-template', does not hold the identifier  *)
(* py_proj_template, so no step rewrites it.  A step's print is a label of *)
(* trace.                                                                  *)
(***************************************************************************)
PKG_OLD == <<"p", "y", "_", "p", "r", "o", "j", "_", "t", "e", "m", "p", "l", "a", "t", "e">>

NewNames == {<<"a", "_", "b">>, PKG_OLD, <<"a", "-", "b">>}

Origins == {<< >>, <<"o">>}

\* text files that hold the identifier py_proj_template
IdentFiles == {"README.md", "pyproject.toml", "main.py"}

\* repo_init.validate_new_name : [a-zA-Z_][a-zA-Z0-9_]*
validate_new_name(name) ==
    /\ name # << >>
    /\ Ord(name[1]) \in (97..122) \cup {95}
    /\ \A i \in 2..Len(name) : IsAlnum(name[i]) \/ name[i] = "_"

\* repo_init.git_remote_exists
git_remote_exists(name) == name \in tree.remotes

TreeStates ==
    [idents : {{}, {"pyproject.toml"}, IdentFiles}, todo : {"absent", "custom"},
     remotes : {{}, {"origin"}, {"origin", "upstream"}}, branches : {{"main"}},
     template_from : {"none"}, head : {"main"}, uv : BOOLEAN, venv : {FALSE},
     hook_src : BOOLEAN, hook : {FALSE}]

InitRepo ==
    /\ dirty \in BOOLEAN
    /\ pyproject \in {[exists |-> FALSE, name |-> None, version |-> None]}
                     \cup {[exists |-> TRUE, name |-> TEMPLATE_REPO_NAME, version |-> v] :
                             v \in {V_1_2_0, V_1_0_0}}
    /\ initPy \in {[dir |-> PKG_OLD, version |-> V_1_2_0],
                    [dir |-> <<"a", "_", "b">>, version |-> V_1_2_0]}
    /\ changelog \in {[exists |-> FALSE, entries |-> {}],
                       [exists |-> TRUE, entries |-> {V_1_2_0}]}
    /\ settings = [exists |-> TRUE, version |-> V_1_2_0]
    /\ tags = << >> /\ remote = << >> /\ tags0 = << >>
    /\ Idle
    /\ tagList = << >> /\ resolved = [status |-> "none", tag |-> None]
    /\ NoDemo
    /\ tree \in TreeStates

riFrame == <<settings, tags, remote, tool, args, loc, tags0, prevUpdOk,
             tagList, resolved, argv, stdout>>

\* main, lines 322-327
RI_Start(new_name, origin, apply, no_uv) ==
    StartRun("repo_init",
             [new_name |-> new_name, origin |-> origin, apply |-> apply, no_uv |-> no_uv],
             "ri_preflight")

\* main, lines 329-336
RI_Preflight ==
    /\ pc = "ri_preflight"
    /\ IF ~pyproject.exists THEN trace' = trace /\ Exit(1, "pyproject_not_found")
       ELSE IF dirty THEN trace' = trace /\ Exit(1, "not_clean")
       ELSE IF ~validate_new_name(args.new_name) THEN trace' = trace /\ Exit(1, "invalid_name")
       ELSE Did(IF args.apply THEN "APPLY" ELSE "DRY-RUN") /\ Goto("ri_rename")
    /\ UNCHANGED <<riFrame, files, tree>>

\* main, line 338: rename_package (lines 108-118)
RI_RenamePackage_Unguarded ==
    /\ pc = "ri_rename"
    /\ IF initPy.dir # PKG_OLD
       THEN UNCHANGED <<initPy, dirty, trace>> /\ Exit(1, "package_missing")
       ELSE IF args.new_name = initPy.dir
       THEN UNCHANGED <<initPy, dirty, trace>> /\ Exit(1, "target_exists")
       ELSE /\ initPy' = [initPy EXCEPT !.dir = args.new_name]
            /\ dirty' = TRUE
            /\ trace' = trace
            /\ Goto("ri_replace")
    /\ UNCHANGED <<riFrame, pyproject, changelog, tree>>

RI_RenamePackage ==
    /\ pc = "ri_rename"
    /\ IF initPy.dir # PKG_OLD
       THEN UNCHANGED <<initPy, dirty, trace>> /\ Exit(1, "package_missing")
       ELSE IF args.new_name = initPy.dir
       THEN UNCHANGED <<initPy, dirty, trace>> /\ Exit(1, "target_exists")
       ELSE IF args.apply
       THEN /\ initPy' = [initPy EXCEPT !.dir = args.new_name]
            /\ dirty' = TRUE
            /\ trace' = trace
            /\ Goto("ri_replace")
       ELSE /\ UNCHANGED <<initPy, dirty>>
            /\ Did("dry_run_rename")
            /\ Goto("ri_replace")
    /\ UNCHANGED <<riFrame, pyproject, changelog, tree>>

\* main, lines 339-340: replace_py_proj_template (lines 121-157)
RI_ReplaceIdentifier ==
    /\ pc = "ri_replace"
    /\ IF args.apply
       THEN /\ tree' = [tree EXCEPT !.idents = {}]
            /\ trace' = Append(trace, "files_updated")
       ELSE /\ tree' = tree
            /\ trace' = trace
                  \o (IF tree.idents # {} THEN <<"dry_run_update_file">> ELSE << >>)
                  \o <<"files_updated">>
    /\ Goto("ri_pyproject")
    /\ UNCHANGED <<riFrame, files>>

\* main, line 341: update_pyproject (lines 160-168)
RI_UpdatePyproject ==
    /\ pc = "ri_pyproject"
    /\ IF "pyproject.toml" \notin tree.idents THEN UNCHANGED <<tree, trace>>
       ELSE IF args.apply
       THEN tree' = [tree EXCEPT !.idents = @ \ {"pyproject.toml"}] /\ trace' = trace
       ELSE tree' = tree /\ Did("dry_run_update_pyproject")
    /\ Goto("ri_versions")
    /\ UNCHANGED <<riFrame, files>>

\* main, line 343: safe_set_versions (lines 208-234)
RI_SetVersions ==
    /\ pc = "ri_versions"
    /\ LET set_manifest == pyproject.version # V_1_0_0
           init_exists == initPy.dir = args.new_name
           set_init == init_exists /\ initPy.version # V_1_0_0
       IN  IF args.apply
           THEN /\ pyproject' = [pyproject EXCEPT !.version = V_1_0_0]
                /\ initPy' = [dir |-> args.new_name, version |-> V_1_0_0]
                /\ trace' = trace
           ELSE /\ UNCHANGED <<pyproject, initPy>>
                /\ trace' = trace
                      \o (IF set_manifest THEN <<"dry_run_set_version">> ELSE << >>)
                      \o (IF ~init_exists THEN <<"dry_run_create_init">>
                          ELSE IF set_init THEN <<"dry_run_set_init">> ELSE << >>)
    /\ Goto("ri_docs")
    /\ UNCHANGED <<riFrame, dirty, changelog, settings, tree>>

\* main, line 344: reset_doc_templates (lines 308-318)
RI_ResetDocs ==
    /\ pc = "ri_docs"
    /\ IF args.apply
       THEN /\ changelog' = IF changelog.exists
                            THEN [exists |-> TRUE, entries |-> {V_1_0_0}] ELSE changelog
            /\ tree' = [tree EXCEPT !.todo = IF @ = "absent" THEN @ ELSE "reset"]
            /\ trace' = trace
       ELSE /\ UNCHANGED <<changelog, tree>>
            /\ trace' = trace
                  \o (IF changelog.exists THEN <<"dry_run_reset_changelog">> ELSE << >>)
                  \o (IF tree.todo # "absent" THEN <<"dry_run_reset_todo">> ELSE << >>)
    /\ Goto("ri_remotes")
    /\ UNCHANGED <<riFrame, dirty, pyproject, initPy>>

\* main, line 345: set_git_remotes (lines 244-254)
RI_SetRemotes ==
    /\ pc = "ri_remotes"
    /\ LET rename == git_remote_exists("origin") /\ ~git_remote_exists("upstream")
           renamed == IF rename /\ args.apply
                      THEN (tree.remotes \ {"origin"}) \cup {"upstream"} ELSE tree.remotes
           add == args.origin # << >> /\ "origin" \notin renamed
       IN  IF args.apply
           THEN /\ tree' = [tree EXCEPT !.remotes = IF add THEN renamed \cup {"origin"}
                                                     ELSE renamed]
                /\ trace' = trace
           ELSE /\ tree' = tree
                /\ trace' = trace
                      \o (IF rename THEN <<"dry_run_remote_rename">> ELSE << >>)
                      \o (IF add THEN <<"dry_run_remote_add">> ELSE << >>)
    /\ Goto("ri_template")
    /\ UNCHANGED <<riFrame, files>>

\* main, line 346: ensure_template_branch (lines 257-274); net = `git ls-remote` answers
RI_TemplateBranch(net) ==
    /\ pc = "ri_template"
    /\ LET have_upstream_main == net /\ git_remote_exists("upstream")
           base == IF have_upstream_main THEN "upstream/main" ELSE "HEAD"
       IN  IF args.apply
           THEN /\ tree' = [tree EXCEPT !.branches = @ \cup {"template", "main"},
                                        !.template_from = base, !.head = "main"]
                /\ trace' = trace
           ELSE /\ tree' = tree
                /\ Did(IF have_upstream_main THEN "dry_run_template_from_upstream"
                       ELSE "dry_run_template_from_head")
    /\ Goto("ri_env")
    /\ UNCHANGED <<riFrame, files>>

\* main, line 347: create_env_and_install (lines 277-286)
RI_CreateEnv ==
    /\ pc = "ri_env"
    /\ IF args.no_uv \/ ~tree.uv
       THEN /\ tree' = tree
            /\ trace' = IF ~tree.uv THEN Append(trace, "uv_not_found") ELSE trace
       ELSE IF args.apply
       THEN tree' = [tree EXCEPT !.venv = TRUE] /\ trace' = trace
       ELSE tree' = tree /\ Did("dry_run_uv")
    /\ Goto("ri_hook")
    /\ UNCHANGED <<riFrame, files>>

\* main, lines 348-349: install_pre_push_hook (lines 289-300), then "done."
RI_InstallHook ==
    /\ pc = "ri_hook"
    /\ IF ~tree.hook_src
       THEN tree' = tree /\ trace' = trace \o <<"hook_source_not_found", "done">>
       ELSE IF args.apply
       THEN tree' = [tree EXCEPT !.hook = TRUE] /\ Did("done")
       ELSE tree' = tree /\ trace' = trace \o <<"dry_run_install_hook", "done">>
    /\ Exit(0, "done")
    /\ UNCHANGED <<riFrame, files>>

NextRepo ==
    \/ \E new_name \in NewNames, origin \in Origins, apply \in BOOLEAN, no_uv \in BOOLEAN :
          RI_Start(new_name, origin, apply, no_uv)
    \/ RI_Preflight
    \/ RI_RenamePackage
    \/ RI_ReplaceIdentifier
    \/ RI_UpdatePyproject
    \/ RI_SetVersions
    \/ RI_ResetDocs
    \/ RI_SetRemotes
    \/ \E net \in BOOLEAN : RI_TemplateBranch(net)
    \/ RI_CreateEnv
    \/ RI_InstallHook

SpecRepo == InitRepo /\ [][NextRepo]_vars

(***************************************************************************)
(* Vocabulary of the properties, stated on the files and refs themselves.  *)
(***************************************************************************)
InTrace(step) == \E i \in 1..Len(trace) : trace[i] = step

Finished(t) == tool = t /\ pc = "done"

Declared == pyproject.exists /\ pyproject.name # None /\ pyproject.version # None

WellFormed(tag) ==
    /\ Len(tag) >= 2 /\ tag[1] = "v" /\ tag[2] \in Digits
    /\ \A i \in 3..Len(tag) : Ord(tag[i]) \in {43, 45, 46, 95} \cup (48..57) \cup (97..122)

TagAgrees == args.tag = <<"v">> \o pyproject.version

InitAgrees ==
    /\ initPy.dir = [i \in 1..Len(pyproject.name) |->
                        IF pyproject.name[i] = "-" THEN "_" ELSE pyproject.name[i]]
    /\ initPy.version = pyproject.version

ChangelogListed == changelog.exists /\ pyproject.version \in changelog.entries

SettingsMissing ==
    pyproject.name = TEMPLATE_REPO_NAME /\ (~settings.exists \/ settings.version = None)

SettingsDiffer ==
    /\ pyproject.name = TEMPLATE_REPO_NAME
    /\ settings.exists /\ settings.version # None /\ settings.version # pyproject.version

CrossFileOk ==
    TagAgrees /\ InitAgrees /\ ChangelogListed /\ ~SettingsMissing /\ ~SettingsDiffer

VTagsOf(refs) == {t \in DOMAIN refs : t # << >> /\ t[1] = "v"}

\* the refs are the starting ones, or those with the remote's missing tags added
OnlyFetched(refs) ==
    \/ refs = tags0
    \/ /\ InTrace("git_fetch")
       /\ DOMAIN refs = DOMAIN tags0 \cup DOMAIN remote
       /\ \A n \in DOMAIN refs : refs[n] = IF n \in DOMAIN tags0 THEN tags0[n] ELSE remote[n]

LatestAsAtStart ==
    /\ LATEST \in DOMAIN tags0 => LATEST \in DOMAIN tags /\ tags[LATEST] = tags0[LATEST]
    /\ LATEST \notin DOMAIN tags0 /\ LATEST \in DOMAIN tags =>
          LATEST \in DOMAIN remote /\ tags[LATEST] = remote[LATEST]

\* the integer components of a tag v<int>(.<int>)*
IntForm(tag) ==
    /\ tag # << >> /\ tag[1] = "v"
    /\ LET parts == Split(Tail(tag), ".") IN \A i \in 1..Len(parts) : AllDigits(parts[i])

Comps(tag) ==
    LET parts == Split(Tail(tag), ".") IN [i \in 1..Len(parts) |-> DigitsValue(parts[i], 0)]

\* x is below y: at the first place where they differ x ends or has the smaller number
NumLess(x, y) ==
    \E k \in 1..Len(y) :
        /\ \A j \in 1..(k - 1) : j <= Len(x) /\ x[j] = y[j]
        /\ (k > Len(x) \/ x[k] < y[k])

ReleaseTag == <<"v">> \o pyproject.version

PromotionJustified ==
    /\ ~dirty
    /\ ChangelogListed
    /\ IF tool = "release_check"
       THEN /\ args.update_latest
            /\ TagAgrees
            /\ args.tag \in DOMAIN tags
            /\ \A u \in VTagsOf(tags) : ~VersionLess(args.tag, u)
       ELSE /\ ~args.dry_run
            /\ ReleaseTag \in DOMAIN tags
            /\ \A u \in VTagsOf(tags) : IntForm(u) /\ ~NumLess(Comps(ReleaseTag), Comps(u))

NoPromotionRun ==
    pc = "done" /\ (exitCode # 0 \/ (tool = "release_check" /\ ~args.update_latest))

(***************************************************************************)
(* C1 as stated: the force-update of 'latest' runs only when promotion was *)
(* requested and the run's checks passed (clean tree, tag = 'v' + manifest *)
(* version, changelog entry, tag exists, tag is the highest v* tag), and   *)
(* every failing run and every release_check run without --update-latest  *)
(* leaves every tag ref unchanged.                                         *)
(***************************************************************************)
C1_Original ==
    /\ InTrace("git_tag_force") => PromotionJustified
    /\ NoPromotionRun => tags = tags0

(***************************************************************************)
(* C1 as amended: the force-update of 'latest' runs only when promotion    *)
(* was requested and the run's checks passed; a failing run, and a         *)
(* release_check run without --update-latest, never runs the force-update, *)
(* and the only change it can make to the tag refs is that of its          *)
(* `git fetch --tags` (tags of the remote that were missing locally are    *)
(* created); a run that did not reach the fetch leaves every tag ref       *)
(* unchanged.                                                              *)
(***************************************************************************)
C1_PromotionGuarded ==
    /\ InTrace("git_tag_force") => PromotionJustified
    /\ NoPromotionRun =>
          /\ ~InTrace("git_tag_force")
          /\ OnlyFetched(tags)
          /\ ~InTrace("git_fetch") => tags = tags0

C1_Promoted ==
    /\ Finished("release_check") /\ InTrace("git_tag_force")
    /\ LATEST \notin DOMAIN tags0 /\ tags[LATEST] = tags[args.tag]

(***************************************************************************)
(* C2: in both tools a run on a repository with pending changes ends with  *)
(* the workspace-not-clean diagnostic and a non-zero exit, and `git        *)
(* status` is all it did: no metadata file was read, no tag queried, no    *)
(* other rule evaluated, whatever the metadata.                            *)
(***************************************************************************)
C2_DirtyFailsFirst ==
    dirty /\ pc = "done" =>
        /\ exitCode # 0
        /\ diag = "not_clean"
        /\ trace = <<"git_status">>
        /\ tags = tags0

C2_DirtyConsistentRun ==
    /\ dirty /\ Finished("release_check") /\ args.update_latest
    /\ Declared /\ CrossFileOk /\ args.tag \in DOMAIN tags

(***************************************************************************)
(* C3: release_check with only --tag returns Pass (exit 0) whenever the    *)
(* tree is clean, the tag is a well-formed v<version>, the manifest        *)
(* declares a name and that version, src/<name with - as _>/__init__.py    *)
(* declares the same __version__, the changelog has '## [<version>]' and,  *)
(* for py-proj-template only, config/settings.toml declares the version.   *)
(***************************************************************************)
C3_ConsistentPasses ==
    /\ Finished("release_check") /\ ~args.require_highest /\ ~args.update_latest
    /\ ~dirty /\ WellFormed(args.tag) /\ Declared /\ CrossFileOk
    => exitCode = 0 /\ diag = "ok" /\ tags = tags0

C3_PassedHyphenName ==
    /\ Finished("release_check") /\ ~args.require_highest /\ exitCode = 0
    /\ pyproject.name = ACME_NAME /\ initPy.dir = <<"a", "_", "b">>

(***************************************************************************)
(* C4: a release_check run with a clean tree, a well-formed tag and a      *)
(* manifest declaring name and version fails with the tag-version-mismatch *)
(* diagnostic (exit 1) when the tag's version differs from the manifest    *)
(* version, whatever the other files hold.                                 *)
(***************************************************************************)
C4_TagMismatchFirst ==
    /\ Finished("release_check") /\ ~dirty /\ WellFormed(args.tag) /\ Declared
    /\ Tail(args.tag) # pyproject.version
    => exitCode = 1 /\ diag = "tag_mismatch"

C4_MismatchAmongOthers ==
    /\ Finished("release_check") /\ diag = "tag_mismatch"
    /\ ~InitAgrees /\ ~ChangelogListed

(***************************************************************************)
(* C5: release_check reports the first violated cross-file rule in the     *)
(* order (1) tag version, (2) __init__ version, (3) changelog header,      *)
(* (4) template settings present and equal, and the run ends at that rule: *)
(* no later rule is evaluated.                                             *)
(***************************************************************************)
RulesPrefix == <<"git_status", "parse_tag", "read_pyproject", "rule_tag_version",
                 "read_init", "read_changelog", "read_settings">>

C5_FirstViolatedRule ==
    /\ Finished("release_check") /\ ~dirty /\ WellFormed(args.tag) /\ Declared
    /\ ~CrossFileOk
    => /\ exitCode = 1
       /\ IF ~TagAgrees THEN diag = "tag_mismatch" /\ trace = SubSeq(RulesPrefix, 1, 4)
          ELSE IF ~InitAgrees THEN diag = "init_mismatch" /\ trace = SubSeq(RulesPrefix, 1, 5)
          ELSE IF ~ChangelogListed
          THEN diag = "changelog_missing" /\ trace = SubSeq(RulesPrefix, 1, 6)
          ELSE /\ trace = RulesPrefix
               /\ diag = IF SettingsMissing THEN "settings_missing" ELSE "settings_mismatch"

C5_SeveralViolated ==
    /\ Finished("release_check") /\ diag = "init_mismatch"
    /\ TagAgrees /\ ~InitAgrees /\ ~ChangelogListed /\ SettingsMissing

(***************************************************************************)
(* C6: a run of update_latest_tag without --dry-run that directly follows  *)
(* a successful such run never runs the force-update of 'latest'; when the *)
(* tag refs are still those the first run left, it finds 'latest' already  *)
(* at the release tag's object, performs no tag operation and exits 0.     *)
(***************************************************************************)
C6_SecondRunNoOp ==
    prevUpdOk /\ tool = "update_latest_tag" /\ ~args.dry_run =>
        /\ ~InTrace("git_tag_force")
        /\ pc = "done" /\ DOMAIN tags = DOMAIN tags0 =>
              /\ exitCode = 0 /\ diag = "noop" /\ tags = tags0
              /\ tags[LATEST] = tags[ReleaseTag]

C6_SecondRunDone ==
    prevUpdOk /\ Finished("update_latest_tag") /\ ~args.dry_run /\ diag = "noop"

(***************************************************************************)
(* C7 as stated: release_check --update-latest, all checks passing and     *)
(* 'latest' already at the release tag's object, exits 0 without running   *)
(* the force-set of 'latest', and 'latest' resolves as before.             *)
(***************************************************************************)
AllChecksPass ==
    /\ ~dirty /\ WellFormed(args.tag) /\ Declared /\ CrossFileOk
    /\ args.tag \in DOMAIN tags
    /\ \A u \in VTagsOf(tags) : ~VersionLess(args.tag, u)

LatestAlreadyThere ==
    LATEST \in DOMAIN tags0 /\ args.tag \in DOMAIN tags /\ tags0[LATEST] = tags[args.tag]

C7_Original ==
    /\ Finished("release_check") /\ args.update_latest
    /\ AllChecksPass /\ LatestAlreadyThere
    => exitCode = 0 /\ ~InTrace("git_tag_force") /\ tags[LATEST] = tags0[LATEST]

(***************************************************************************)
(* C7 as amended: release_check --update-latest, all checks passing and    *)
(* 'latest' already at the release tag's object, exits 0; it does run the  *)
(* force-set of 'latest' (release_check has no already-up-to-date test),   *)
(* which re-points 'latest' at the object it referred to, so 'latest'      *)
(* resolves as before and no other ref changes except by the fetch.        *)
(***************************************************************************)
C7_ForceSetRepeated ==
    /\ Finished("release_check") /\ args.update_latest
    /\ AllChecksPass /\ LatestAlreadyThere
    => /\ exitCode = 0
       /\ InTrace("git_tag_force")
       /\ tags[LATEST] = tags0[LATEST]
       /\ OnlyFetched(tags)

C7_AlreadyLatest ==
    /\ Finished("release_check") /\ args.update_latest /\ exitCode = 0
    /\ LatestAlreadyThere /\ args.tag = VTag(V_1_10_0) /\ VTag(V_1_2_0) \in DOMAIN tags

(***************************************************************************)
(* C8: for a list whose v* tags all have the form v<int>(.<int>)* and are  *)
(* at least one, resolve_highest_tag returns a tag of the list whose       *)
(* integer components no other tag exceeds under left-to-right numeric     *)
(* comparison, a strict prefix ranking below its extensions:               *)
(* {v1.0.0, v1.2.0, v1.10.0} gives v1.10.0, and v1.2 ranks below v1.2.0.   *)
(***************************************************************************)
VSet == {t \in {tagList[i] : i \in 1..Len(tagList)} : t # << >> /\ t[1] = "v"}

C8_HighestIsNumericMax ==
    resolved.status # "none" /\ VSet # {} /\ (\A t \in VSet : IntForm(t)) =>
        /\ resolved.status = "ok"
        /\ resolved.tag \in VSet
        /\ \A t \in VSet : ~NumLess(Comps(resolved.tag), Comps(t))
        /\ VSet = {VTag(V_1_0_0), VTag(V_1_2_0), VTag(V_1_10_0)} => resolved.tag = VTag(V_1_10_0)
        /\ VTag(V_1_2_0) \in VSet => resolved.tag # VTag(V_1_2)

C8_TenBeatsTwo ==
    /\ resolved.status = "ok" /\ resolved.tag = VTag(V_1_10_0)
    /\ VSet = {VTag(V_1_0_0), VTag(V_1_2_0), VTag(V_1_10_0)}

(***************************************************************************)
(* C9: release_check with --require-highest or --update-latest, the        *)
(* cross-file checks passing: a tag that is not among the repository's     *)
(* tags fails with tag-not-found (exit 1), a tag that exists while a       *)
(* higher v* tag exists fails with not-highest (exit 1), and in both cases *)
(* 'latest' is not moved.                                                  *)
(***************************************************************************)
C9_OrderingFailures ==
    /\ Finished("release_check") /\ (args.require_highest \/ args.update_latest)
    /\ ~dirty /\ WellFormed(args.tag) /\ Declared /\ CrossFileOk
    => /\ args.tag \notin DOMAIN tags => exitCode = 1 /\ diag = "tag_not_found"
       /\ args.tag \in DOMAIN tags /\ (\E u \in VTagsOf(tags) : VersionLess(args.tag, u)) =>
             exitCode = 1 /\ diag = "not_highest"
       /\ exitCode # 0 => ~InTrace("git_tag_force") /\ LatestAsAtStart

C9_LowerTagRejected ==
    /\ Finished("release_check") /\ args.update_latest /\ diag = "not_highest"
    /\ args.tag = VTag(V_1_2_0) /\ VTag(V_1_10_0) \in DOMAIN tags

(***************************************************************************)
(* C10 as stated: every run of either tool that exits 0 had __version__    *)
(* equal to the manifest version and a '## [<version>]' changelog section. *)
(***************************************************************************)
C10_Original ==
    pc = "done" /\ exitCode = 0 => initPy.version = pyproject.version /\ ChangelogListed

(***************************************************************************)
(* C10 as amended: every release_check run that exits 0 had __version__    *)
(* of the package equal to the manifest version and a '## [<version>]'     *)
(* changelog section; every update_latest_tag run that exits 0 had the     *)
(* changelog section, but update_latest_tag never reads __init__.py and    *)
(* succeeds, moving 'latest', whatever its __version__.                    *)
(***************************************************************************)
C10_Agreement ==
    /\ Finished("release_check") /\ exitCode = 0 => InitAgrees /\ ChangelogListed
    /\ Finished("update_latest_tag") /\ exitCode = 0 =>
          ChangelogListed /\ ~InTrace("read_init")

C10_UpdaterIgnoresInit ==
    /\ Finished("update_latest_tag") /\ diag = "moved"
    /\ initPy.version # pyproject.version

\* what update_latest_tag checks, stated on the files and refs: clean tree, declared
\* name and version, changelog section, template settings, the release tag exists
\* and every other v* tag is an all-integer tag strictly below it
UpdaterChecksPass ==
    /\ ~dirty /\ Declared /\ ChangelogListed /\ ~SettingsMissing /\ ~SettingsDiffer
    /\ ReleaseTag \in DOMAIN tags
    /\ \A u \in VTagsOf(tags) :
          IntForm(u) /\ (u # ReleaseTag => NumLess(Comps(u), Comps(ReleaseTag)))

LatestAtReleaseTag ==
    LATEST \in DOMAIN tags /\ ReleaseTag \in DOMAIN tags /\ tags[LATEST] = tags[ReleaseTag]

C12_TemplateSettings ==
    /\ tool = "release_check" /\ pyproject.name # TEMPLATE_REPO_NAME =>
          ~InTrace("read_settings")
    /\ /\ Finished("release_check") /\ ~dirty /\ WellFormed(args.tag) /\ Declared
       /\ TagAgrees /\ InitAgrees /\ ChangelogListed
       => IF pyproject.name = TEMPLATE_REPO_NAME
          THEN /\ InTrace("read_settings")
               /\ SettingsMissing => exitCode = 1 /\ diag = "settings_missing"
               /\ SettingsDiffer => exitCode = 1 /\ diag = "settings_mismatch"
               /\ diag \in {"settings_missing", "settings_mismatch"} =>
                     SettingsMissing \/ SettingsDiffer
          ELSE /\ diag \notin {"settings_missing", "settings_mismatch"}
               /\ ~args.require_highest => exitCode = 0 /\ diag = "ok"

C12_TemplateNoSettingsVersion ==
    /\ Finished("release_check") /\ pyproject.name = TEMPLATE_REPO_NAME
    /\ TagAgrees /\ InitAgrees /\ ChangelogListed
    /\ settings.exists /\ settings.version = None
    /\ diag = "settings_missing"

\* the verdict of a run that reached its fetch, from the tag refs it found after it
VerdictOn(refs) ==
    IF ReleaseTag \notin DOMAIN refs THEN "tag_not_found"
    ELSE IF tool = "release_check"
    THEN IF \E u \in VTagsOf(refs) : VersionLess(ReleaseTag, u) THEN "not_highest" ELSE "ok"
    ELSE IF \E u \in VTagsOf(refs) : ~IntForm(u) THEN "unsupported_tag"
    ELSE IF \E u \in VTagsOf(refs) : NumLess(Comps(ReleaseTag), Comps(u)) THEN "not_highest"
    ELSE IF LATEST \in DOMAIN refs /\ refs[LATEST] = refs[ReleaseTag] THEN "noop"
    ELSE IF args.dry_run THEN "dry_run"
    ELSE "moved"

\* the tag refs such a run leaves
RefsAfter(refs) ==
    IF diag = "moved" \/ (tool = "release_check" /\ diag = "ok" /\ args.update_latest)
    THEN [n \in DOMAIN refs \cup {LATEST} |-> IF n = LATEST THEN refs[ReleaseTag] ELSE refs[n]]
    ELSE refs

(***************************************************************************)
(* C13: in both tools `git fetch --tags` is attempted at most once per run *)
(* and its failure never ends the run: the run goes on to the tag checks,  *)
(* and its verdict and the tag refs it leaves are determined by the local  *)
(* tag refs found after the fetch, whether the fetch succeeded or failed   *)
(* (a failed fetch leaves the refs of the start of the run).               *)
(***************************************************************************)
C13_FetchBestEffort ==
    /\ Cardinality({i \in 1..Len(trace) : trace[i] = "git_fetch"}) <= 1
    /\ loc.fetch_rc # -1 =>
          /\ InTrace("git_fetch")
          /\ loc.fetch_rc = 1 => loc.seen = tags0
          /\ pc = "done" =>
                /\ InTrace("git_tag_list")
                /\ diag = VerdictOn(loc.seen)
                /\ exitCode = IF diag \in {"ok", "noop", "dry_run", "moved"} THEN 0 ELSE 1
                /\ tags = RefsAfter(loc.seen)

C13_FailedFetchPromotes ==
    /\ pc = "done" /\ loc.fetch_rc = 1 /\ remote # << >>
    /\ exitCode = 0 /\ InTrace("git_tag_force")

(***************************************************************************)
(* C14: in both tools an unexpected error (a git command that fails, a     *)
(* metadata file that is not there) is caught at the top level and ends    *)
(* the run with exit code 1 and a generic diagnostic; no run ends through  *)
(* an unhandled exception.                                                 *)
(***************************************************************************)
C14_NoUnhandledException ==
    pc = "done" =>
        /\ diag # "traceback"
        /\ exitCode \in {0, 1}

\* the steps of a release_check run that passes every check, in order
FullCheckerRun ==
    <<"git_status", "parse_tag", "read_pyproject", "rule_tag_version", "read_init",
      "read_changelog">>
    \o (IF pyproject.name = TEMPLATE_REPO_NAME THEN <<"read_settings">> ELSE << >>)
    \o (IF args.require_highest THEN <<"git_fetch", "git_tag_list", "git_tag_sort">> ELSE << >>)
    \o <<"print_ok">>
    \o (IF args.update_latest THEN <<"git_tag_force">> ELSE << >>)

StepBefore(a, b) ==
    \E i, j \in 1..Len(trace) : i < j /\ trace[i] = a /\ trace[j] = b

(***************************************************************************)
(* C16 as stated: every release_check run loads all the metadata           *)
(* (manifest, __version__ of the package, changelog) before its first      *)
(* cross-validation comparison, starts the ordering check only after       *)
(* cross-validation passed, and on a failure ends at once.                 *)
(***************************************************************************)
C16_Original ==
    tool = "release_check" =>
        /\ InTrace("rule_tag_version") =>
              /\ StepBefore("read_pyproject", "rule_tag_version")
              /\ StepBefore("read_init", "rule_tag_version")
              /\ StepBefore("read_changelog", "rule_tag_version")
        /\ InTrace("git_fetch") => CrossFileOk
        /\ exitCode = 1 => pc = "done" /\ ~InTrace("print_ok")

(***************************************************************************)
(* C16 as amended: every release_check run goes through its steps in one   *)
(* fixed order, each at most once: clean check, tag format, then loading   *)
(* interleaved with cross-validation (manifest read, tag/version rule,     *)
(* __init__ read and rule, changelog read and rule, settings read and rule *)
(* for the template), then the ordering check when requested, validation   *)
(* success, promotion when requested.  The ordering check never starts     *)
(* unless cross-validation passed, a failure at any step ends the run with *)
(* exit 1 and no later step, and a run exits 0 exactly when it took every  *)
(* step.                                                                   *)
(***************************************************************************)
C16_PhaseOrder ==
    tool = "release_check" =>
        /\ Len(trace) <= Len(FullCheckerRun)
        /\ trace = SubSeq(FullCheckerRun, 1, Len(trace))
        /\ InTrace("git_fetch") \/ InTrace("print_ok") =>
              ~dirty /\ WellFormed(args.tag) /\ Declared /\ CrossFileOk
        /\ InTrace("print_ok") /\ args.require_highest =>
              args.tag \in DOMAIN tags /\ \A u \in VTagsOf(tags) : ~VersionLess(args.tag, u)
        /\ exitCode = 1 => pc = "done" /\ ~InTrace("print_ok")
        /\ pc = "done" => exitCode \in {0, 1} /\ (exitCode = 0 <=> trace = FullCheckerRun)

C16_FailsAtOrdering ==
    /\ Finished("release_check") /\ exitCode = 1 /\ diag = "not_highest"
    /\ trace = SubSeq(FullCheckerRun, 1, 9)
    /\ StepBefore("rule_tag_version", "read_init")

(***************************************************************************)
(* C18: after a promotion that succeeded and was not a dry run             *)
(* (release_check --update-latest exiting 0, update_latest_tag without     *)
(* --dry-run exiting 0) 'latest' resolves to the object of the tag         *)
(* 'v' + manifest version, and that tag is the highest v* tag of the local *)
(* tag refs the run observed (by version sort for release_check, by        *)
(* integer components for update_latest_tag).                              *)
(***************************************************************************)
C18_LatestAtHighest ==
    /\ pc = "done" /\ exitCode = 0
    /\ \/ tool = "release_check" /\ args.update_latest
       \/ tool = "update_latest_tag" /\ ~args.dry_run
    => /\ LatestAtReleaseTag
       /\ loc.fetch_rc # -1 /\ ReleaseTag \in DOMAIN loc.seen
       /\ tags[ReleaseTag] = loc.seen[ReleaseTag]
       /\ IF tool = "release_check"
          THEN \A u \in VTagsOf(loc.seen) : ~VersionLess(ReleaseTag, u)
          ELSE \A u \in VTagsOf(loc.seen) :
                  IntForm(u) /\ ~NumLess(Comps(ReleaseTag), Comps(u))

C18_LatestRepointed ==
    /\ Finished("release_check") /\ args.update_latest /\ exitCode = 0
    /\ LATEST \in DOMAIN tags0 /\ tags0[LATEST] # tags[LATEST]
    /\ Cardinality(VTagsOf(loc.seen)) >= 2

HasNonIntegerTag(refs) == \E u \in VTagsOf(refs) : ~IntForm(u)

(***************************************************************************)
(* C19: when the repository holds a v* tag with a component that is not an *)
(* integer (v1.10.0-rc1), update_latest_tag never moves 'latest' and exits *)
(* 1, and the run that gets as far as ordering the tags (clean tree,       *)
(* metadata checks passed, release tag present) aborts with 'Unsupported   *)
(* semantic version tag', even when the release tag is above every         *)
(* all-integer tag.                                                        *)
(***************************************************************************)
C19_NonIntegerTagAborts ==
    tool = "update_latest_tag" /\ HasNonIntegerTag(tags) =>
        /\ ~InTrace("git_tag_force") /\ LatestAsAtStart
        /\ pc = "done" => exitCode = 1
        /\ /\ pc = "done" /\ ~dirty /\ Declared /\ ChangelogListed
           /\ ~SettingsMissing /\ ~SettingsDiffer /\ ReleaseTag \in DOMAIN tags
           => diag = "unsupported_tag" /\ trace[Len(trace)] = "git_tag_list_v"

C19_ReleaseTagAboveIntegerTags ==
    /\ Finished("update_latest_tag") /\ ~args.dry_run /\ diag = "unsupported_tag"
    /\ VTag(V_1_10_0_rc1) \in DOMAIN tags
    /\ ReleaseTag \in DOMAIN tags
    /\ \A u \in VTagsOf(tags) :
          IntForm(u) /\ u # ReleaseTag => NumLess(Comps(u), Comps(ReleaseTag))
    /\ \E u \in VTagsOf(tags) : IntForm(u) /\ u # ReleaseTag

\* the two lines of the demo for the name n, written out
CoreLine(n) ==
    <<"[", "c", "o", "r", "e", "]", " ", "H", "e", "l", "l", "o", ",", " ">> \o n \o <<"!">>

ApplicationLine(n) ==
    <<"[", "a", "p", "p", "l", "i", "c", "a", "t", "i", "o", "n", "]", " ",
      "[", "a", "p", "i", "]", " ", "H", "e", "l", "l", "o", ",", " ">> \o n \o <<"!">>

NameGiven == argv # << >>

DryRunPrints ==
    /\ trace[1] = "DRY-RUN" /\ trace[Len(trace)] = "done"
    /\ InTrace("dry_run_rename")
    /\ tree.idents # {} => InTrace("dry_run_update_file")
    /\ "pyproject.toml" \in tree.idents => InTrace("dry_run_update_pyproject")
    /\ pyproject.version # V_1_0_0 => InTrace("dry_run_set_version")
    /\ InTrace("dry_run_create_init") \/ InTrace("dry_run_set_init")
          \/ initPy = [dir |-> args.new_name, version |-> V_1_0_0]
    /\ changelog.exists => InTrace("dry_run_reset_changelog")
    /\ tree.todo # "absent" => InTrace("dry_run_reset_todo")
    /\ "origin" \in tree.remotes /\ "upstream" \notin tree.remotes =>
          InTrace("dry_run_remote_rename")
    /\ InTrace("dry_run_template_from_upstream") \/ InTrace("dry_run_template_from_head")
    /\ tree.uv /\ ~args.no_uv => InTrace("dry_run_uv")
    /\ tree.hook_src => InTrace("dry_run_install_hook")

(***************************************************************************)
(* C17: repo_init is dry-run by default: in a run without --apply no step  *)
(* (package rename, identifier replacement, pyproject update, version      *)
(* reset, doc-template reset, git remote change, template branch, venv,    *)
(* pre-push hook) changes the files, the git remotes and branches, the     *)
(* venv or the hooks, and the run that takes every step has printed each   *)
(* step's intended action.                                                 *)
(***************************************************************************)
C17_DryRunChangesNothing ==
    /\ [][tool' = "repo_init" /\ ~args'.apply => UNCHANGED <<files, tree, tags, remote>>]_vars
    /\ [](Finished("repo_init") /\ ~args.apply /\ exitCode = 0 => DryRunPrints)

C17_DryRunDone ==
    /\ Finished("repo_init") /\ ~args.apply /\ exitCode = 0
    /\ initPy.dir = PKG_OLD /\ tree.idents = IdentFiles
    /\ tree.remotes = {"origin"} /\ tree.uv /\ tree.hook_src /\ ~tree.hook /\ ~tree.venv
    /\ Len(trace) >= 12

====
